---- MODULE Spec2Model ----
(***************************************************************************)
(* IasAvbVideoRingBufferShm: the single-producer / multi-consumer video    *)
(* ring buffer living in shared memory                                     *)
(* (src/private/src/avb_video_common/IasAvbVideoRingBufferShm.cpp).        *)
(*                                                                         *)
(* Every process is a caller of the ring.  A handler is cut into steps at  *)
(* the places where the code takes a lock or touches shared memory that    *)
(* another process may change; a step is one critical section or one       *)
(* unlocked block.  uint32_t values are kept in two's complement (the      *)
(* integer -1 is UINT32_MAX), compared with the unsigned order ULt.        *)
(***************************************************************************)
EXTENDS Integers, FiniteSets, Sequences, TLC

\* ---------------------------------------------------------------- bounds
NumBuffers == 3            \* numBuffers handed to init()
MaxReaders == 2            \* size of the reader table mReaders[]
MaxTime == 4               \* the monotonic clock runs from 1 to MaxTime
MaxLevel == 4              \* mBufferLevel is followed while within MaxLevel of 0
MaxOffset == 4             \* a reader's offset is followed up to MaxOffset

\* ------------------------------------------------------ program constants
NSEC_PER_SEC == 1          \* the clock is counted in seconds
READER_TIMEOUT_NS == 2 * NSEC_PER_SEC
UINT32_MAX == -1           \* 0xFFFFFFFF in two's complement

Pids == {1, 2}             \* reader processes, each calling with its own pid
Writers == {11, 12}      \* processes calling the write side
Procs == Pids \cup Writers
NoProc == 0                \* an unlocked mutex
Entries == 1..MaxReaders   \* indices of mReaders[]
Requests == 0..NumBuffers  \* counts a caller passes to beginAccess/endAccess

VARIABLES
  mInitialized,            \* bool
  mNumBuffers,             \* uint32
  mReadOffset,             \* uint32
  mWriteOffset,            \* uint32
  mBufferLevel,            \* uint32
  mWriteInProgress,        \* atomic bool
  mAllowedToWrite,         \* uint32
  mReaders,                \* Entries -> [pid, offset, lastAccess, allowedToRead]
  mMutex,                  \* owner of mMutex, or NoProc
  mMutexWriteInProgress,   \* owner of mMutexWriteInProgress, or NoProc
  mReadWaitLevel,          \* uint32
  mWriteWaitLevel,         \* uint32
  mCondRead,               \* the processes blocked in mCondRead.wait()
  mCondWrite,              \* the processes blocked in mCondWrite.wait()
  now,                     \* CLOCK_MONOTONIC
  pc,                      \* Procs -> [op, idx, n, s]: position and locals
  unread                   \* ghost: Entries -> slots holding data the entry
                           \* has been given (by the writer, or found between
                           \* readOffset and writeOffset when added) and has
                           \* not committed as consumed

vars == <<mInitialized, mNumBuffers, mReadOffset, mWriteOffset, mBufferLevel,
          mWriteInProgress, mAllowedToWrite, mReaders, mMutex,
          mMutexWriteInProgress, mReadWaitLevel, mWriteWaitLevel, mCondRead,
          mCondWrite, now, pc, unread>>

\* the wait levels and the condition variables
waits == <<mReadWaitLevel, mWriteWaitLevel, mCondRead, mCondWrite>>

ring == <<mInitialized, mNumBuffers, mReadOffset, mWriteOffset, mBufferLevel,
          mWriteInProgress, mAllowedToWrite, mMutex, mMutexWriteInProgress,
          waits>>

\* ------------------------------------------------------ uint32 arithmetic
ULt(a, b) == IF (a < 0) = (b < 0) THEN a < b ELSE b < 0
ULe(a, b) == a = b \/ ULt(a, b)
UGt(a, b) == ULt(b, a)
UGe(a, b) == ~ULt(a, b)

InLevelBound(level) == level \in (0 - MaxLevel)..MaxLevel

\* ------------------------------------------------------------ locals of pc
Idle == [op |-> "idle", idx |-> 0, n |-> 0, s |-> 0]
At(p, op) == pc[p].op = op
Goto(p, op, idx, n, s) ==
  pc' = [pc EXCEPT ![p] = [op |-> op, idx |-> idx, n |-> n, s |-> s]]

\* A process between two calls (a writer may hold its borrow).
Between(p) == pc[p].op \in {"idle", "w_held"}

FreeEntry == [pid |-> 0, offset |-> 0, lastAccess |-> 0, allowedToRead |-> 0]
Live(rd) == {i \in Entries : rd[i].pid # 0}

\* The slots [offset, offset + n) of one borrow (a borrow never wraps).
SlotRange(offset, n) ==
  {i \in 0..(NumBuffers - 1) : UGe(i, offset) /\ ULt(i - offset, n)}

\* The slots from readOffset up to writeOffset in ring order: all of them
\* when the ring is full.
SlotsBetween(from, to) ==
  IF mNumBuffers = 0 THEN {}
  ELSE IF from = to /\ mBufferLevel = mNumBuffers THEN 0..(mNumBuffers - 1)
  ELSE {(from + i) % mNumBuffers : i \in 0..(((to - from) % mNumBuffers) - 1)}

\* -------------------------------------------------------------- findReader
findReader(pid) ==
  IF \E i \in Entries : mReaders[i].pid = pid
  THEN CHOOSE i \in Entries :
         /\ mReaders[i].pid = pid
         /\ \A j \in Entries : mReaders[j].pid = pid => i <= j
  ELSE 0

\* ----------------------------------------------- calculateReaderBufferLevel
calculateReaderBufferLevel(offset) ==
  IF UGe(mWriteOffset, offset)
  THEN mWriteOffset - offset
  ELSE mNumBuffers - offset + mWriteOffset

\* beginAccess(read): the count granted to a reader at `offset` asking `req`.
ReadGrant(offset, req) ==
  LET bufferLevel == calculateReaderBufferLevel(offset)
      n1 == IF UGt(req, bufferLevel) THEN bufferLevel ELSE req
  IN IF UGe(offset + n1, mNumBuffers) THEN mNumBuffers - offset ELSE n1

\* beginAccess(write): the count granted to the writer asking `req`.
WriteGrant(req) ==
  LET bufferLevel == mBufferLevel
      n1 == IF UGt(req, mNumBuffers - bufferLevel)
            THEN mNumBuffers - bufferLevel ELSE req
      n2 == IF UGe(mWriteOffset + n1, mNumBuffers)
            THEN mNumBuffers - mWriteOffset ELSE n1
  IN IF ULt(mWriteOffset, mReadOffset)
     THEN mReadOffset - mWriteOffset - 1 ELSE n2

\* ------------------------------------------------ updateSmallerReaderOffset
smallerOffset(rd) ==
  IF Live(rd) = {} THEN UINT32_MAX
  ELSE LET offs == {rd[i].offset : i \in Live(rd)}
       IN CHOOSE o \in offs : \A o2 \in offs : ULe(o, o2)

ResetReaders(rd) ==
  IF smallerOffset(rd) = mNumBuffers
  THEN [i \in Entries |->
          IF rd[i].pid # 0 THEN [rd[i] EXCEPT !.offset = 0] ELSE rd[i]]
  ELSE rd

\* ---------------------------------------------------- aggregateReaderOffset
\* AggregatedLevel subtracting the new offset instead of the advance.
AggregatedLevel_NoPrevious(s) == mBufferLevel - s

AggregatedLevel(s) == mBufferLevel - (s - mReadOffset)
AggregatedReadOffset(s) ==
  IF s = mNumBuffers THEN 0
  ELSE IF ULt(s, mNumBuffers) THEN s
  ELSE mReadOffset

\* ------------------------------------------------- purgeUnresponsiveReaders
\* Unresponsive with the timeout compared by >= instead of >.
Unresponsive_AtTimeout(lastAccess, t) ==
  (t > lastAccess) /\ ((t - lastAccess) >= READER_TIMEOUT_NS)

Unresponsive(lastAccess, t) ==
  (t > lastAccess) /\ ((t - lastAccess) > READER_TIMEOUT_NS)

purgeUnresponsiveReaders(rd, t) ==
  [i \in Entries |->
     IF rd[i].pid # 0 /\ Unresponsive(rd[i].lastAccess, t)
     THEN FreeEntry ELSE rd[i]]

\* ==================================================================== Init
Init ==
  /\ mInitialized = FALSE
  /\ mNumBuffers = 0
  /\ mReadOffset = 0
  /\ mWriteOffset = 0
  /\ mBufferLevel = 0
  /\ mWriteInProgress = FALSE
  /\ mAllowedToWrite = 0
  /\ mReaders = [i \in Entries |-> FreeEntry]
  /\ mMutex = NoProc
  /\ mMutexWriteInProgress = NoProc
  /\ mReadWaitLevel = 0
  /\ mWriteWaitLevel = 0
  /\ mCondRead = {}
  /\ mCondWrite = {}
  /\ now = 1
  /\ pc = [p \in Procs |-> Idle]
  /\ unread = [i \in Entries |-> {}]

\* init(packetSize, numBuffers, dataBuf, shared) with valid arguments
init ==
  /\ ~mInitialized
  /\ \A p \in Procs : At(p, "idle")
  /\ mInitialized' = TRUE
  /\ mNumBuffers' = NumBuffers
  /\ UNCHANGED <<mReadOffset, mWriteOffset, mBufferLevel, mWriteInProgress,
                 mAllowedToWrite, mReaders, mMutex, mMutexWriteInProgress,
                 waits, now, pc, unread>>

\* init() called again on the initialized ring: it has no check of
\* mInitialized, and assigns the geometry again and nothing else
reinit(numBuffers) ==
  /\ mInitialized
  /\ numBuffers # 0
  /\ mInitialized' = TRUE
  /\ mNumBuffers' = numBuffers
  /\ UNCHANGED <<mReadOffset, mWriteOffset, mBufferLevel, mWriteInProgress,
                 mAllowedToWrite, mReaders, mMutex, mMutexWriteInProgress,
                 waits, now, pc, unread>>

\* the monotonic clock advances
Tick ==
  /\ now < MaxTime
  /\ now' = now + 1
  /\ UNCHANGED <<ring, mReaders, pc, unread>>

\* =============================================================== addReader
addReader_Result(pid) ==
  IF pid <= 0 THEN "InvalidParam"
  ELSE IF \E i \in Entries : mReaders[i].pid = 0 THEN "Ok"
  ELSE "TooManyReaders"

\* the first entry with pid == 0
FirstFree(rd) ==
  CHOOSE k \in Entries :
    /\ rd[k].pid = 0
    /\ \A j \in Entries : rd[j].pid = 0 => k <= j

\* the reader table after addReader(pid) has found a free entry
AddedReaders(rd, pid) ==
  [rd EXCEPT ![FirstFree(rd)].pid = pid,
             ![FirstFree(rd)].offset = mReadOffset,
             ![FirstFree(rd)].lastAccess = now]

addReader(pid) ==
  /\ pid > 0
  /\ \E i \in Entries : mReaders[i].pid = 0
  /\ mReaders' = AddedReaders(mReaders, pid)
  /\ unread' = [unread EXCEPT ![FirstFree(mReaders)] =
                                SlotsBetween(mReadOffset, mWriteOffset)]
  /\ UNCHANGED <<ring, now, pc>>

addReader_TooManyReaders(pid) ==
  /\ pid > 0
  /\ \A i \in Entries : mReaders[i].pid # 0
  /\ UNCHANGED vars

\* ============================================================ removeReader
\* the reader table after removeReader(pid)
RemovedReaders(rd, pid) ==
  [i \in Entries |-> IF rd[i].pid = pid THEN FreeEntry ELSE rd[i]]

removeReader(pid) ==
  /\ pid > 0
  /\ \E i \in Entries : mReaders[i].pid = pid
  /\ mReaders' = RemovedReaders(mReaders, pid)
  /\ unread' = [i \in Entries |->
                  IF mReaders[i].pid = pid THEN {} ELSE unread[i]]
  /\ UNCHANGED <<ring, now, pc>>

removeReader_InvalidParam(pid) ==
  /\ \A i \in Entries : mReaders[i].pid # pid
  /\ UNCHANGED vars

\* ======================================================= beginAccess(read)
beginAccessRead_Result(pid) ==
  IF ~mInitialized THEN "NotInitialized"
  ELSE IF findReader(pid) = 0 THEN "InvalidParam"
  ELSE "Ok"

\* updateAvailable(read) and the argument check of waitRead.
updateAvailableRead_Result(pid) ==
  IF ~mInitialized THEN "NotInitialized"
  ELSE IF findReader(pid) = 0 THEN "InvalidParam"
  ELSE "Ok"

waitRead_Result(pid, numBuffers, timeout_ms) ==
  IF UGt(numBuffers, mNumBuffers) \/ numBuffers = 0 \/ timeout_ms = 0
     \/ findReader(pid) = 0
  THEN "InvalidParam"
  ELSE "Wait"

beginAccessRead_Fail(p) ==
  /\ At(p, "idle")
  /\ beginAccessRead_Result(p) # "Ok"
  /\ UNCHANGED vars

beginAccessRead_Find(p) ==
  /\ At(p, "idle")
  /\ beginAccessRead_Result(p) = "Ok"
  /\ Goto(p, "br_grant", findReader(p), 0, 0)
  /\ UNCHANGED <<ring, mReaders, now, unread>>

beginAccessRead_Grant(p, req) ==
  /\ At(p, "br_grant")
  /\ LET i == pc[p].idx
     IN mReaders' = [mReaders EXCEPT
                       ![i].allowedToRead = ReadGrant(mReaders[i].offset, req),
                       ![i].lastAccess = now]
  /\ Goto(p, "idle", 0, 0, 0)
  /\ UNCHANGED <<ring, now, unread>>

\* ========================================================= endAccess(read)
endAccessRead_Result(pid, n) ==
  IF findReader(pid) = 0 THEN "InvalidParam"
  ELSE IF UGt(n, mReaders[findReader(pid)].allowedToRead) THEN "InvalidParam"
  ELSE "Ok"

endAccessRead_InvalidParam(p, n) ==
  /\ At(p, "idle")
  /\ endAccessRead_Result(p, n) # "Ok"
  /\ UNCHANGED vars

endAccessRead_Check(p, n) ==
  /\ At(p, "idle")
  /\ endAccessRead_Result(p, n) = "Ok"
  /\ Goto(p, "er_advance", findReader(p), n, 0)
  /\ UNCHANGED <<ring, mReaders, now, unread>>

\* reader->allowedToRead = 0; reader->offset += numBuffers
endAccessRead_Advance(p) ==
  /\ At(p, "er_advance")
  /\ LET i == pc[p].idx
         n == pc[p].n
     IN /\ ULe(mReaders[i].offset + n, MaxOffset)
        /\ mReaders' = [mReaders EXCEPT ![i].allowedToRead = 0,
                                        ![i].offset = mReaders[i].offset + n]
        /\ unread' = [unread EXCEPT
                        ![i] = unread[i] \ SlotRange(mReaders[i].offset, n)]
        /\ Goto(p, "er_min", i, 0, 0)
  /\ UNCHANGED <<ring, now>>

\* aggregateReaderOffset: updateSmallerReaderOffset() under mMutexReaders
endAccessRead_Min(p) ==
  /\ At(p, "er_min")
  /\ mReaders' = ResetReaders(mReaders)
  /\ Goto(p, "er_apply", pc[p].idx, 0, smallerOffset(mReaders))
  /\ UNCHANGED <<ring, now, unread>>

\* aggregateReaderOffset: the update under mMutex; then updateReaderAccess
endAccessRead_Apply(p) ==
  /\ At(p, "er_apply")
  /\ mMutex = NoProc
  /\ InLevelBound(AggregatedLevel(pc[p].s))
  /\ mBufferLevel' = AggregatedLevel(pc[p].s)
  /\ mReadOffset' = AggregatedReadOffset(pc[p].s)
  /\ mCondWrite' = IF ULe(mBufferLevel', mWriteWaitLevel) THEN {}
                   ELSE mCondWrite
  /\ mReaders' = [mReaders EXCEPT ![pc[p].idx].lastAccess = now]
  /\ Goto(p, "idle", 0, 0, 0)
  /\ UNCHANGED <<mInitialized, mNumBuffers, mWriteOffset, mWriteInProgress,
                 mAllowedToWrite, mMutex, mMutexWriteInProgress,
                 mReadWaitLevel, mWriteWaitLevel, mCondRead, now, unread>>

\* ====================================================== beginAccess(write)
beginAccessWrite_NotInitialized(p) ==
  /\ At(p, "idle")
  /\ ~mInitialized
  /\ UNCHANGED vars

beginAccessWrite_NotAllowed(p) ==
  /\ Between(p)
  /\ mInitialized
  /\ mWriteInProgress
  /\ UNCHANGED vars

\* if (mWriteInProgress) read false
beginAccessWrite_Check(p) ==
  /\ At(p, "idle")
  /\ mInitialized
  /\ ~mWriteInProgress
  /\ Goto(p, "bw_exchange", 0, 0, 0)
  /\ UNCHANGED <<ring, mReaders, now, unread>>

\* mWriteInProgress.exchange(true)
beginAccessWrite_Exchange(p) ==
  /\ At(p, "bw_exchange")
  /\ mWriteInProgress' = TRUE
  /\ Goto(p, "bw_lock", 0, 0, 0)
  /\ UNCHANGED <<mInitialized, mNumBuffers, mReadOffset, mWriteOffset,
                 mBufferLevel, mAllowedToWrite, mMutex, mMutexWriteInProgress,
                 waits, mReaders, now, unread>>

\* mMutexWriteInProgress.lock(), then the grant
beginAccessWrite_Grant(p, req) ==
  /\ At(p, "bw_lock")
  /\ mMutexWriteInProgress = NoProc
  /\ mMutexWriteInProgress' = p
  /\ mAllowedToWrite' = WriteGrant(req)
  /\ Goto(p, "w_held", 0, 0, 0)
  /\ UNCHANGED <<mInitialized, mNumBuffers, mReadOffset, mWriteOffset,
                 mBufferLevel, mWriteInProgress, mMutex, waits, mReaders, now,
                 unread>>

\* ======================================================== endAccess(write)
\* mWriteInProgress read false: returns OK and does nothing
endAccessWrite_NoWrite(p) ==
  /\ Between(p)
  /\ ~mWriteInProgress
  /\ Goto(p, "idle", 0, 0, 0)
  /\ UNCHANGED <<ring, mReaders, now, unread>>

endAccessWrite_InvalidParam(p, n) ==
  /\ At(p, "w_held")
  /\ mWriteInProgress
  /\ UGt(n, mAllowedToWrite)
  /\ UNCHANGED vars

CommittedWriteOffset(n) ==
  IF mWriteOffset + n = mNumBuffers THEN 0 ELSE mWriteOffset + n

\* mAllowedToWrite = 0, then under mMutex: either the early return of
\* (mWriteOffset + numBuffers) > mNumBuffers, or the commit followed by
\* mWriteInProgress.exchange(false), mMutexWriteInProgress.unlock() and the
\* broadcast of mCondRead
endAccessWrite_Commit(p, n) ==
  /\ At(p, "w_held")
  /\ mWriteInProgress
  /\ ULe(n, mAllowedToWrite)
  /\ mMutex = NoProc
  /\ InLevelBound(mBufferLevel + n)
  /\ mAllowedToWrite' = 0
  /\ IF UGt(mWriteOffset + n, mNumBuffers)
     THEN UNCHANGED <<mMutex, mWriteOffset, mBufferLevel, mWriteInProgress,
                      mMutexWriteInProgress, mCondRead, unread, pc>>
     ELSE /\ mMutex' = p
          /\ mWriteOffset' = CommittedWriteOffset(n)
          /\ mBufferLevel' = mBufferLevel + n
          /\ mWriteInProgress' = FALSE
          /\ mMutexWriteInProgress' = NoProc
          /\ mCondRead' = IF UGe(mBufferLevel', mReadWaitLevel) THEN {}
                          ELSE mCondRead
          /\ unread' = [i \in Entries |->
                          IF mReaders[i].pid # 0
                          THEN unread[i] \cup SlotRange(mWriteOffset, n)
                          ELSE unread[i]]
          /\ Goto(p, "ew_purge", 0, 0, 0)
  /\ UNCHANGED <<mInitialized, mNumBuffers, mReadOffset, mReaders,
                 mReadWaitLevel, mWriteWaitLevel, mCondWrite, now>>

\* purgeUnresponsiveReaders() under mMutexReaders, mMutex still held
endAccessWrite_Purge(p) ==
  /\ At(p, "ew_purge")
  /\ mReaders' = purgeUnresponsiveReaders(mReaders, now)
  /\ unread' = [i \in Entries |->
                  IF mReaders'[i].pid = 0 THEN {} ELSE unread[i]]
  /\ mMutex' = NoProc
  /\ Goto(p, "idle", 0, 0, 0)
  /\ UNCHANGED <<mInitialized, mNumBuffers, mReadOffset, mWriteOffset,
                 mBufferLevel, mWriteInProgress, mAllowedToWrite,
                 mMutexWriteInProgress, waits, now>>

\* =============================================================== waitWrite
waitWrite_Result(numBuffers, timeout_ms) ==
  IF UGt(numBuffers, mNumBuffers) \/ numBuffers = 0 \/ timeout_ms = 0
  THEN "InvalidParam"
  ELSE "Wait"

waitWrite_InvalidParam(p, numBuffers, timeout_ms) ==
  /\ At(p, "idle")
  /\ waitWrite_Result(numBuffers, timeout_ms) = "InvalidParam"
  /\ UNCHANGED vars

\* WriteWaitLevel keeping one more slot free.
WriteWaitLevel_NextSlot(numBuffers) == mNumBuffers - numBuffers - 1

WriteWaitLevel(numBuffers) == mNumBuffers - numBuffers

\* mWriteWaitLevel = mNumBuffers - numBuffers
waitWrite_Enter(p, numBuffers, timeout_ms) ==
  /\ At(p, "idle")
  /\ waitWrite_Result(numBuffers, timeout_ms) = "Wait"
  /\ mWriteWaitLevel' = WriteWaitLevel(numBuffers)
  /\ Goto(p, "ww_loop", 0, numBuffers, 0)
  /\ UNCHANGED <<mInitialized, mNumBuffers, mReadOffset, mWriteOffset,
                 mBufferLevel, mWriteInProgress, mAllowedToWrite, mMutex,
                 mMutexWriteInProgress, mReadWaitLevel, mCondRead, mCondWrite,
                 mReaders, now, unread>>

\* while (mBufferLevel > mWriteWaitLevel) read false: returns OK
waitWrite_Ok(p) ==
  /\ At(p, "ww_loop")
  /\ ~UGt(mBufferLevel, mWriteWaitLevel)
  /\ Goto(p, "ww_ok", 0, pc[p].n, 0)
  /\ UNCHANGED <<ring, mReaders, now, unread>>

\* while (mBufferLevel > mWriteWaitLevel) read true: mCondWrite.wait()
waitWrite_Wait(p) ==
  /\ At(p, "ww_loop")
  /\ UGt(mBufferLevel, mWriteWaitLevel)
  /\ mCondWrite' = mCondWrite \cup {p}
  /\ Goto(p, "ww_wait", 0, pc[p].n, 0)
  /\ UNCHANGED <<mInitialized, mNumBuffers, mReadOffset, mWriteOffset,
                 mBufferLevel, mWriteInProgress, mAllowedToWrite, mMutex,
                 mMutexWriteInProgress, mReadWaitLevel, mWriteWaitLevel,
                 mCondRead, mReaders, now, unread>>

\* mCondWrite.wait() returns eIasOk after a broadcast
waitWrite_Woken(p) ==
  /\ At(p, "ww_wait")
  /\ p \notin mCondWrite
  /\ Goto(p, "ww_loop", 0, pc[p].n, 0)
  /\ UNCHANGED <<ring, mReaders, now, unread>>

\* mCondWrite.wait() returns eIasTimeout: the result is taken from the level
waitWrite_TimeOut(p) ==
  /\ At(p, "ww_wait")
  /\ p \in mCondWrite
  /\ mCondWrite' = mCondWrite \ {p}
  /\ IF UGt(mBufferLevel, mWriteWaitLevel)
     THEN Goto(p, "ww_timeout", 0, pc[p].n, 0)
     ELSE Goto(p, "ww_ok", 0, pc[p].n, 0)
  /\ UNCHANGED <<mInitialized, mNumBuffers, mReadOffset, mWriteOffset,
                 mBufferLevel, mWriteInProgress, mAllowedToWrite, mMutex,
                 mMutexWriteInProgress, mReadWaitLevel, mWriteWaitLevel,
                 mCondRead, mReaders, now, unread>>

\* return result
waitWrite_Return(p) ==
  /\ pc[p].op \in {"ww_ok", "ww_timeout"}
  /\ Goto(p, "idle", 0, 0, 0)
  /\ UNCHANGED <<ring, mReaders, now, unread>>

\* ================================================================ waitRead
waitRead_InvalidParam(p, numBuffers, timeout_ms) ==
  /\ At(p, "idle")
  /\ waitRead_Result(p, numBuffers, timeout_ms) = "InvalidParam"
  /\ UNCHANGED vars

\* findReader(pid) and the argument check
waitRead_Find(p, numBuffers, timeout_ms) ==
  /\ At(p, "idle")
  /\ waitRead_Result(p, numBuffers, timeout_ms) = "Wait"
  /\ Goto(p, "wr_level", findReader(p), numBuffers, 0)
  /\ UNCHANGED <<ring, mReaders, now, unread>>

\* under mMutex: mReadWaitLevel = min(mReadWaitLevel, numBuffers); then
\* updateReaderAccess(reader). pc.s notes (ghost) how many unconsumed slots
\* the entry has when the call starts.
waitRead_Level(p) ==
  /\ At(p, "wr_level")
  /\ mMutex = NoProc
  /\ mReadWaitLevel' = IF ULt(pc[p].n, mReadWaitLevel) THEN pc[p].n
                       ELSE mReadWaitLevel
  /\ mReaders' = [mReaders EXCEPT ![pc[p].idx].lastAccess = now]
  /\ Goto(p, "wr_loop", pc[p].idx, pc[p].n, Cardinality(unread[pc[p].idx]))
  /\ UNCHANGED <<mInitialized, mNumBuffers, mReadOffset, mWriteOffset,
                 mBufferLevel, mWriteInProgress, mAllowedToWrite, mMutex,
                 mMutexWriteInProgress, mWriteWaitLevel, mCondRead, mCondWrite,
                 now, unread>>

\* while (calculateReaderBufferLevel(reader) < numBuffers) read false
waitRead_Ok(p) ==
  /\ At(p, "wr_loop")
  /\ ~ULt(calculateReaderBufferLevel(mReaders[pc[p].idx].offset), pc[p].n)
  /\ Goto(p, "wr_ok", pc[p].idx, pc[p].n, pc[p].s)
  /\ UNCHANGED <<ring, mReaders, now, unread>>

\* while (calculateReaderBufferLevel(reader) < numBuffers) read true:
\* mCondRead.wait()
waitRead_Wait(p) ==
  /\ At(p, "wr_loop")
  /\ ULt(calculateReaderBufferLevel(mReaders[pc[p].idx].offset), pc[p].n)
  /\ mCondRead' = mCondRead \cup {p}
  /\ Goto(p, "wr_wait", pc[p].idx, pc[p].n, pc[p].s)
  /\ UNCHANGED <<mInitialized, mNumBuffers, mReadOffset, mWriteOffset,
                 mBufferLevel, mWriteInProgress, mAllowedToWrite, mMutex,
                 mMutexWriteInProgress, mReadWaitLevel, mWriteWaitLevel,
                 mCondWrite, mReaders, now, unread>>

\* mCondRead.wait() returns eIasOk after a broadcast; updateReaderAccess
waitRead_Woken(p) ==
  /\ At(p, "wr_wait")
  /\ p \notin mCondRead
  /\ mReaders' = [mReaders EXCEPT ![pc[p].idx].lastAccess = now]
  /\ Goto(p, "wr_loop", pc[p].idx, pc[p].n, pc[p].s)
  /\ UNCHANGED <<ring, now, unread>>

\* mCondRead.wait() returns eIasTimeout; updateReaderAccess; the result is
\* taken from the reader's level
waitRead_TimeOut(p) ==
  /\ At(p, "wr_wait")
  /\ p \in mCondRead
  /\ mCondRead' = mCondRead \ {p}
  /\ mReaders' = [mReaders EXCEPT ![pc[p].idx].lastAccess = now]
  /\ IF ULt(calculateReaderBufferLevel(mReaders[pc[p].idx].offset), pc[p].n)
     THEN Goto(p, "wr_timeout", pc[p].idx, pc[p].n, pc[p].s)
     ELSE Goto(p, "wr_ok", pc[p].idx, pc[p].n, pc[p].s)
  /\ UNCHANGED <<mInitialized, mNumBuffers, mReadOffset, mWriteOffset,
                 mBufferLevel, mWriteInProgress, mAllowedToWrite, mMutex,
                 mMutexWriteInProgress, mReadWaitLevel, mWriteWaitLevel,
                 mCondWrite, now, unread>>

\* return result
waitRead_Return(p) ==
  /\ pc[p].op \in {"wr_ok", "wr_timeout"}
  /\ Goto(p, "idle", 0, 0, 0)
  /\ UNCHANGED <<ring, mReaders, now, unread>>

\* ==================================================================== Next
\* Registration of the ids in Ids by a managing process.
Registration(Ids) ==
  \/ \E pid \in Ids : addReader(pid)
  \/ \E pid \in Ids : addReader_TooManyReaders(pid)
  \/ \E pid \in Ids : removeReader(pid)
  \/ \E pid \in Ids : removeReader_InvalidParam(pid)

\* The calls of the reader processes R.
ReaderCalls(R) ==
  \/ \E p \in R : beginAccessRead_Fail(p)
  \/ \E p \in R : beginAccessRead_Find(p)
  \/ \E p \in R, req \in Requests : beginAccessRead_Grant(p, req)
  \/ \E p \in R, n \in Requests : endAccessRead_InvalidParam(p, n)
  \/ \E p \in R, n \in Requests : endAccessRead_Check(p, n)
  \/ \E p \in R : endAccessRead_Advance(p)
  \/ \E p \in R : endAccessRead_Min(p)
  \/ \E p \in R : endAccessRead_Apply(p)

\* The calls of the writer processes W.
WriterCalls(W) ==
  \/ \E p \in W : beginAccessWrite_NotInitialized(p)
  \/ \E p \in W : beginAccessWrite_NotAllowed(p)
  \/ \E p \in W : beginAccessWrite_Check(p)
  \/ \E p \in W : beginAccessWrite_Exchange(p)
  \/ \E p \in W, req \in Requests : beginAccessWrite_Grant(p, req)
  \/ \E p \in W : endAccessWrite_NoWrite(p)
  \/ \E p \in W, n \in Requests : endAccessWrite_InvalidParam(p, n)
  \/ \E p \in W, n \in Requests : endAccessWrite_Commit(p, n)
  \/ \E p \in W : endAccessWrite_Purge(p)

\* The blocking calls of the writer processes W and of the reader processes R.
\* The timeout is given in units of the clock; any nonzero value waits.
Timeouts == {0, 1}
WaitWriteCalls(W) ==
  \/ \E p \in W, n \in 0..(NumBuffers + 1), t \in Timeouts :
        waitWrite_InvalidParam(p, n, t)
  \/ \E p \in W, n \in Requests, t \in Timeouts : waitWrite_Enter(p, n, t)
  \/ \E p \in W : waitWrite_Ok(p)
  \/ \E p \in W : waitWrite_Wait(p)
  \/ \E p \in W : waitWrite_Woken(p)
  \/ \E p \in W : waitWrite_TimeOut(p)
  \/ \E p \in W : waitWrite_Return(p)

WaitReadCalls(R) ==
  \/ \E p \in R, n \in 0..(NumBuffers + 1), t \in Timeouts :
        waitRead_InvalidParam(p, n, t)
  \/ \E p \in R, n \in Requests, t \in Timeouts : waitRead_Find(p, n, t)
  \/ \E p \in R : waitRead_Level(p)
  \/ \E p \in R : waitRead_Ok(p)
  \/ \E p \in R : waitRead_Wait(p)
  \/ \E p \in R : waitRead_Woken(p)
  \/ \E p \in R : waitRead_TimeOut(p)
  \/ \E p \in R : waitRead_Return(p)

\* A process blocked in a condition variable's wait().
Blocked(p) == pc[p].op \in {"ww_wait", "wr_wait"}

\* A reader process stalls or dies between two calls: it calls the ring no
\* more. Nothing of the ring changes; its table entry stays as it is.
Stopped(p) == At(p, "stopped")
stop(p) ==
  /\ At(p, "idle")
  /\ Goto(p, "stopped", 0, 0, 0)
  /\ UNCHANGED <<ring, mReaders, now, unread>>

\* No call starts, and nothing else happens, while another call is running.
OneCallAtATime ==
  \A q \in Procs : Between(q) \/ Stopped(q) \/ pc'[q] # pc[q]

\* One writer and one reader process, preemptively scheduled, while the
\* reader is registered and removed by a third process.
Next == init \/ Registration({1}) \/ ReaderCalls({1}) \/ WriterCalls({11})
Spec == Init /\ [][Next]_vars

\* Two writer processes, preemptively scheduled, and a registered reader.
NextWriters == init \/ Registration({1}) \/ WriterCalls(Writers)
SpecWriters == Init /\ [][NextWriters]_vars

\* Two reader processes preempting each other; the writer's calls and the
\* registrations run while no reader is inside a call.
NextReaders ==
  \/ ReaderCalls(Pids) /\ Between(11)
  \/ (init \/ (\E pid \in Pids : addReader(pid)) \/ WriterCalls({11}))
       /\ OneCallAtATime
SpecReaders == Init /\ [][NextReaders]_vars

\* All calls of one writer and two readers, each running to its end before
\* the next one starts, while the clock advances.
NextSeq ==
  (init \/ Tick \/ Registration(Pids) \/ ReaderCalls(Pids) \/ WriterCalls({11}))
    /\ OneCallAtATime
SpecSeq == Init /\ [][NextSeq]_vars

\* All calls of one writer and one reader, one at a time, under a fair
\* scheduler: each process that can run again and again does run, and the
\* clock advances.
\* The reader registers itself, and may stop for good.
NextLive ==
  (\/ init \/ Tick \/ stop(1)
   \/ Registration({1}) /\ ~Stopped(1)
   \/ ReaderCalls({1}) \/ WriterCalls({11}))
    /\ OneCallAtATime
SpecLive ==
  /\ Init /\ [][NextLive]_vars
  /\ WF_vars(init)
  /\ SF_vars(Tick /\ OneCallAtATime)
  /\ SF_vars(ReaderCalls({1}) /\ OneCallAtATime)
  /\ SF_vars(WriterCalls({11}) /\ OneCallAtATime)

\* The calls of one writer, one at a time, on a ring whose owner may call
\* init() again with another number of buffers.
NextReinit ==
  (init \/ (\E numBuffers \in 1..NumBuffers : reinit(numBuffers))
     \/ Registration({1}) \/ WriterCalls({11}))
    /\ OneCallAtATime
SpecReinit == Init /\ [][NextReinit]_vars

\* No call starts, and nothing else happens, while another call is running
\* and is not blocked in a wait().
OneCallRunning ==
  \A q \in Procs :
    Between(q) \/ Stopped(q) \/ Blocked(q) \/ pc'[q] # pc[q]

\* One writer and one reader, with the blocking calls, under a fair
\* scheduler; a call runs to its end or to its wait() before another starts.
NextWait ==
  (init \/ (\E pid \in {1} : addReader(pid))
     \/ ReaderCalls({1}) \/ WriterCalls({11})
     \/ WaitReadCalls({1}) \/ WaitWriteCalls({11}))
    /\ OneCallRunning
SpecWait ==
  /\ Init /\ [][NextWait]_vars
  /\ WF_vars(init)
  /\ SF_vars(ReaderCalls({1}) /\ OneCallRunning)
  /\ SF_vars(WriterCalls({11}) /\ OneCallRunning)
  /\ SF_vars(WaitReadCalls({1}) /\ OneCallRunning)
  /\ SF_vars(WaitWriteCalls({11}) /\ OneCallRunning)

\* ================================================================== claims
Quiescent == \A p \in Procs : At(p, "idle")
WriteBorrow ==
  IF \E p \in Writers : At(p, "w_held") /\ mMutexWriteInProgress = p
  THEN SlotRange(mWriteOffset, mAllowedToWrite) ELSE {}
ReadBorrow(i) == SlotRange(mReaders[i].offset, mReaders[i].allowedToRead)
AllSlots == 0..(NumBuffers - 1)
Admitted(p) == pc[p].op \in {"bw_lock", "w_held"}

\* C1: of the processes calling beginAccess(write), one is admitted and every
\* other one returns NotAllowed: no two have set mWriteInProgress and gone on
\* to the borrow at once, and none waits for mMutexWriteInProgress.
C1_SingleWriter ==
  /\ \A p, q \in Writers : (Admitted(p) /\ Admitted(q)) => p = q
  /\ \A p \in Writers : At(p, "bw_lock") => mMutexWriteInProgress = NoProc

\* C2: the slots granted to the writer hold no data that a live reader has
\* not committed as consumed, and do not overlap a live reader's borrow.
C2_NoOverwrite ==
  \A i \in Live(mReaders) :
    /\ WriteBorrow \cap unread[i] = {}
    /\ WriteBorrow \cap ReadBorrow(i) = {}

\* C3: a live reader is granted, and counts as readable, only slots that the
\* writer has committed and the reader has not yet consumed.
C3_NoOvertake ==
  \A i \in Live(mReaders) :
    /\ ReadBorrow(i) \subseteq unread[i]
    /\ ULe(calculateReaderBufferLevel(mReaders[i].offset), Cardinality(unread[i]))

\* C4: when the writer has filled the ring (writeOffset wrapped to 0,
\* bufferLevel = numBuffers), a registered reader at offset 0 that has
\* consumed nothing is granted numBuffers slots for a request of numBuffers.
C4_FillAndDrain ==
  (mInitialized /\ Quiescent /\ mWriteOffset = 0 /\ mReadOffset = 0
     /\ mBufferLevel = mNumBuffers)
  => \A i \in Live(mReaders) :
       (mReaders[i].offset = 0 /\ unread[i] = AllSlots)
       => ReadGrant(mReaders[i].offset, mNumBuffers) = mNumBuffers

InEndAccessRead(q) == pc[q].op \in {"er_advance", "er_min", "er_apply"}
C8_ReadOffsetIsMin ==
  [][\A p \in Pids :
       (/\ mInitialized /\ endAccessRead_Apply(p) /\ Live(mReaders') # {}
        /\ \A q \in Pids \ {p} : ~InEndAccessRead(q)) =>
         mReadOffset' = IF smallerOffset(mReaders') = mNumBuffers
                        THEN 0 ELSE smallerOffset(mReaders')]_vars

\* C9: bufferLevel and every live reader's level stay within numBuffers.
C9_LevelsBounded ==
  mInitialized =>
    /\ ULe(mBufferLevel, mNumBuffers)
    /\ \A i \in Live(mReaders) :
         ULe(calculateReaderBufferLevel(mReaders[i].offset), mNumBuffers)

\* C5: the ring never stays for ever in a state where the writer and every
\* live reader are granted no slot, while the reader keeps calling.
Stuck ==
  /\ mInitialized /\ Live(mReaders) # {}
  /\ WriteGrant(mNumBuffers) = 0
  /\ \A i \in Live(mReaders) : ReadGrant(mReaders[i].offset, mNumBuffers) = 0
C5_NeverStuck == []<>(Stopped(1) \/ ~Stuck)

\* C6: when the reader has stopped and every entry it holds is due for
\* eviction, the writer, which keeps cycling, is granted a slot again.
StalledReader ==
  /\ mInitialized /\ Stopped(1) /\ Live(mReaders) # {}
  /\ \A i \in Live(mReaders) : Unresponsive(mReaders[i].lastAccess, now)
C6_WriterRecovers == StalledReader ~> (WriteGrant(mNumBuffers) # 0)

\* The calls of a reader with the id `pid` all return InvalidParam.
ReaderCallsRefused(pid) ==
  /\ updateAvailableRead_Result(pid) = "InvalidParam"
  /\ beginAccessRead_Result(pid) = "InvalidParam"
  /\ \A n \in Requests : endAccessRead_Result(pid, n) = "InvalidParam"
  /\ \A n \in Requests : waitRead_Result(pid, n, 1) = "InvalidParam"
Holds(rd, pid) == {i \in Entries : rd[i].pid = pid}

\* C10 as stated: the purge of a committing endAccess(write) zeroes the entry
\* of every live reader idle for more than READER_TIMEOUT_NS, after which the
\* calls with that reader's id return InvalidParam; it leaves every other
\* entry as it is.
C10_Eviction ==
  [][\A p \in Writers : endAccessWrite_Purge(p) =>
       \A i \in Live(mReaders) :
         IF now - mReaders[i].lastAccess > READER_TIMEOUT_NS
         THEN /\ mReaders'[i] = FreeEntry
              /\ \A pid \in Pids :
                   pid = mReaders[i].pid => ReaderCallsRefused(pid)'
         ELSE mReaders'[i] = mReaders[i]]_vars

\* C10: the same, the calls being refused when no other entry holds the id;
\* and as long as no entry holds an id, the calls with it are refused.
C10_EvictionOfLastEntry ==
  [][/\ \A p \in Writers : endAccessWrite_Purge(p) =>
          \A i \in Live(mReaders) :
            IF now - mReaders[i].lastAccess > READER_TIMEOUT_NS
            THEN /\ mReaders'[i] = FreeEntry
                 /\ \A pid \in Pids :
                      (pid = mReaders[i].pid /\ Holds(mReaders', pid) = {})
                        => ReaderCallsRefused(pid)'
            ELSE mReaders'[i] = mReaders[i]
     /\ \A pid \in Pids :
          (mInitialized' /\ Holds(mReaders', pid) = {})
            => ReaderCallsRefused(pid)']_vars

\* A purge is about to evict one reader and to keep another.
C10_Witness ==
  /\ \E p \in Writers : At(p, "ew_purge")
  /\ \E i, j \in Live(mReaders) :
       /\ now - mReaders[i].lastAccess > READER_TIMEOUT_NS
       /\ now - mReaders[j].lastAccess <= READER_TIMEOUT_NS
       /\ mReaders[i].pid # mReaders[j].pid

DistinctIds ==
  \A i, j \in Live(mReaders) : mReaders[i].pid = mReaders[j].pid => i = j
C11_RoundTrip ==
  [][/\ \A p \in Writers, n \in Requests :
          (mInitialized /\ endAccessWrite_Commit(p, n) /\ At(p, "ew_purge")')
            => mWriteOffset' = (mWriteOffset + n) % mNumBuffers
     /\ \A p \in Pids :
          (mInitialized /\ DistinctIds /\ endAccessRead_Apply(p)
             /\ mReaders'[pc[p].idx].pid # 0)
            => mReaders'[pc[p].idx].offset
                 = mReaders[pc[p].idx].offset % mNumBuffers]_vars

\* C12: an endAccess call that returns InvalidParam mutates nothing: on
\* endAccess(read, n) with n > allowedToRead or an unknown id, and on
\* endAccess(write, n) with n > allowedToWrite or writeOffset + n > numBuffers,
\* writeOffset, readOffset, bufferLevel, the reader table, allowedToWrite and
\* writeInProgress are after the call what they were before it.
endAccess_InvalidParam ==
  \/ \E p \in Pids, n \in Requests : endAccessRead_InvalidParam(p, n)
  \/ \E p \in Writers, n \in Requests : endAccessWrite_InvalidParam(p, n)
  \/ \E p \in Writers, n \in Requests :
        endAccessWrite_Commit(p, n) /\ UGt(mWriteOffset + n, mNumBuffers)
C12_InvalidParamMutatesNothing ==
  [][endAccess_InvalidParam
       => UNCHANGED <<mWriteOffset, mReadOffset, mBufferLevel, mReaders,
                      mAllowedToWrite, mWriteInProgress>>]_vars

\* C13: before init has succeeded every operation returns NotInitialized and
\* leaves the control block unchanged: a step taken while the ring is not
\* initialized changes no offset, level, grant, flag or reader-table entry,
\* and an addReader call made then returns NotInitialized.
C13_NotInitialized ==
  [][~mInitialized'
       => /\ UNCHANGED <<mNumBuffers, mReadOffset, mWriteOffset, mBufferLevel,
                         mWriteInProgress, mAllowedToWrite, mReaders>>
          /\ \A pid \in Pids :
               addReader(pid) => addReader_Result(pid) = "NotInitialized"]_vars

\* C14: waitWrite(n, timeoutMs) returns OK only when it has read a level at
\* or below numBuffers - n, returns Timeout only when at the timeout the level
\* is still above numBuffers - n, and no step of it changes the level or an
\* offset; and a waitWrite blocked on a full ring returns Timeout unless the
\* ring is drained.
InWaitWrite(p) ==
  \/ \E n \in Requests, t \in Timeouts : waitWrite_Enter(p, n, t)
  \/ waitWrite_Ok(p) \/ waitWrite_Wait(p) \/ waitWrite_Woken(p)
  \/ waitWrite_TimeOut(p) \/ waitWrite_Return(p)
InWaitRead(p) ==
  \/ waitRead_Level(p) \/ waitRead_Ok(p) \/ waitRead_Wait(p)
  \/ waitRead_Woken(p) \/ waitRead_TimeOut(p) \/ waitRead_Return(p)
C15_WaitReadProgress ==
  [][\A p \in Pids :
       LET i == pc[p].idx
       IN /\ (/\ waitRead_TimeOut(p) /\ At(p, "wr_timeout")'
              /\ mReaders[i].pid = p
              /\ pc[p].s < pc[p].n)
               => Cardinality(unread[i]) < pc[p].n
          /\ (/\ At(p, "wr_wait")
              /\ \E w \in Writers, n \in Requests :
                    endAccessWrite_Commit(w, n) /\ At(w, "ew_purge")')
               => p \notin mCondRead'
          /\ InWaitRead(p)
               => \A j \in Entries :
                    mReaders'[j].offset = mReaders[j].offset]_vars

\* C16: when no call is under way, for an id that is not registered and a
\* reader table with a free entry, addReader(id) followed at once by
\* removeReader(id) leaves every field of every entry as it was.
C16_RegistrationRoundTrip ==
  \A pid \in Pids :
    (/\ Quiescent
     /\ \A i \in Entries : mReaders[i].pid # pid
     /\ \E i \in Entries : mReaders[i].pid = 0)
      => RemovedReaders(AddedReaders(mReaders, pid), pid) = mReaders

\* C17: beginAccess(write) only clamps the request downward: the granted n,
\* which is what allowedToWrite is set to, is at most the requested count,
\* at most numBuffers - bufferLevel, ends at or before the physical end
\* (writeOffset + n <= numBuffers) and, when writeOffset < readOffset, is at
\* most readOffset - writeOffset - 1.
C17_GrantClampsDown ==
  [][\A p \in Writers, req \in Requests :
       beginAccessWrite_Grant(p, req)
         => /\ ULe(mAllowedToWrite', req)
            /\ ULe(mAllowedToWrite', mNumBuffers - mBufferLevel)
            /\ ULe(mWriteOffset + mAllowedToWrite', mNumBuffers)
            /\ ULt(mWriteOffset, mReadOffset)
                 => ULe(mAllowedToWrite', mReadOffset - mWriteOffset - 1)]_vars

\* C18: locks are taken only in the order mMutexReaders, mMutex,
\* mMutexWriteInProgress: no process takes mMutexReaders while it holds
\* mMutex or mMutexWriteInProgress, and none takes mMutex while it holds
\* mMutexWriteInProgress.
AcquiresMutexReaders(p) ==
  \/ p \in Pids /\ endAccessRead_Min(p)
  \/ p \in Writers /\ endAccessWrite_Purge(p)
AcquiresMutex(p) ==
  \/ p \in Pids /\ (endAccessRead_Apply(p) \/ waitRead_Level(p))
  \/ p \in Writers /\ \E n \in Requests : endAccessWrite_Commit(p, n)
C18_LockOrder ==
  [][\A p \in Procs :
       /\ AcquiresMutexReaders(p)
            => mMutex # p /\ mMutexWriteInProgress # p
       /\ AcquiresMutex(p) => mMutexWriteInProgress # p]_vars

\* C19: whenever no process is inside beginAccess(write) or
\* endAccess(write), mWriteInProgress is true exactly when
\* mMutexWriteInProgress is held.
C19_FlagMatchesLock ==
  (\A p \in Writers : Between(p))
    => (mWriteInProgress <=> mMutexWriteInProgress # NoProc)

\* C20: in every reachable state every reader-table entry with id == 0 has
\* offset == 0, lastAccess == 0 and allowedToRead == 0.
C20_FreeEntriesClean ==
  \A i \in Entries : mReaders[i].pid = 0 => mReaders[i] = FreeEntry

====
